---- MODULE Spec2Model ----
(***************************************************************************)
(* Call Shadow AI Agent (lngc-service): the bounded conversation memory,   *)
(* the orchestration chain around it, the StreamHandler and the WebSocket  *)
(* and REST endpoints that drive it.                                       *)
(*                                                                         *)
(* Execution model.  All endpoint coroutines run on one asyncio event      *)
(* loop: a coroutine runs without interruption by another coroutine until  *)
(* it reaches an await that suspends.  chain.ainvoke runs the synchronous  *)
(* prepare_inputs of the chain on an executor thread, so its reads of the  *)
(* memory interleave with the event loop at the granularity of single      *)
(* list operations.                                                        *)
(***************************************************************************)
EXTENDS Integers, Sequences, FiniteSets, TLC

\* ---------------------------------------------------------------- bounds
MaxCap == 2          \* largest configured max_memory_messages explored
MaxMsgs == 2         \* frames / requests received in one run
MaxAdds == 3         \* add_input_message calls on a memory driven alone
MaxExtra == 2        \* fragments stored beyond the context window

\* ------------------------------------------------------ program constants
ContextWindow == 20  \* memory.get_context(max_messages=20)

\* ------------------------------------------------------------- processes
Clients == {"c1", "c2"}      \* concurrent peers: connections or requests
Handlers == {"ws", "rest"}   \* the two module-level StreamHandler objects

\* ------------------------------------------------------------------ data
Absent == "<absent>"         \* a key the JSON object does not have

Obj(t, sp, se, em) ==
  [kind |-> "object", text |-> t, speaker |-> sp, sentiment |-> se, emotion |-> em]

FragA == Obj("a", "client", "positive", "joy")
FragB == Obj("b", "agent", "negative", "fear")

ValidPayloads == {FragA, FragB}

InvalidPayloads ==
  { [kind |-> "garbage", text |-> Absent, speaker |-> Absent,
     sentiment |-> Absent, emotion |-> Absent],
    [kind |-> "array", text |-> Absent, speaker |-> Absent,
     sentiment |-> Absent, emotion |-> Absent],
    Obj("", "client", "positive", "joy"),
    Obj("a", "boss", "positive", "joy"),
    Obj("a", "client", "positive", Absent) }

Payloads == ValidPayloads \cup InvalidPayloads

\* InputMessage without min_length=1 on text.
InputMessageValidAnyText(p) ==
  /\ p.text # Absent
  /\ p.speaker \in {"client", "agent"}
  /\ p.sentiment # Absent
  /\ p.emotion # Absent

\* InputMessage field constraints (pydantic): text: str, min_length=1;
\* speaker: Literal["client", "agent"]; sentiment, emotion: required str.
InputMessageValid(p) ==
  /\ p.text # Absent /\ p.text # ""
  /\ p.speaker \in {"client", "agent"}
  /\ p.sentiment # Absent
  /\ p.emotion # Absent

\* What the inner try block of the WebSocket loop does with a text frame
\* before process_message: json.loads, then InputMessage(**json_data).
\*   "json_decode_error"  json.loads raised JSONDecodeError
\*   "type_error"         the JSON value is no object: ** raises TypeError
\*   "validation_error"   pydantic ValidationError
\*   "ok"                 an InputMessage
ws_decode(p) ==
  IF p.kind = "garbage" THEN "json_decode_error"
  ELSE IF p.kind # "object" THEN "type_error"
  ELSE IF ~InputMessageValid(p) THEN "validation_error"
  ELSE "ok"

InputMessage(p) ==
  [text |-> p.text, speaker |-> p.speaker, sentiment |-> p.sentiment,
   emotion |-> p.emotion]

\* ------------------------------------------------- ConversationMemory data
\* HumanMessage for the client, AIMessage for the agent, with the tags in
\* additional_kwargs.
MakeMessage(m) ==
  [type |-> IF m.speaker = "client" THEN "human" ELSE "ai",
   content |-> m.text,
   speaker |-> m.speaker, sentiment |-> m.sentiment, emotion |-> m.emotion]

MakeMetadata(m) ==
  [speaker |-> m.speaker, sentiment |-> m.sentiment, emotion |-> m.emotion,
   text |-> m.text]

\* seq[:k], the head of the list instead of its tail.
SliceFirst(seq, k) ==
  SubSeq(seq, 1, IF k > Len(seq) THEN Len(seq) ELSE IF k < 0 THEN 0 ELSE k)

\* seq[-k:] of Python for a list seq and an int k # 0.
SliceLast(seq, k) ==
  LET n == Len(seq)
      from == IF k > 0 THEN (IF k >= n THEN 1 ELSE n - k + 1)
              ELSE (IF -k >= n THEN n + 1 ELSE -k + 1)
  IN  SubSeq(seq, from, n)

\* The optional argument max_messages: <<>> is None, <<k>> the int k.
NoneArg == <<>>
Some(k) == <<k>>

\* `x[-max_messages:] if max_messages else x`: None and 0 are falsy.
WindowOf(seq, k) ==
  IF k = NoneArg THEN seq
  ELSE IF k[1] = 0 THEN seq
  ELSE SliceLast(seq, k[1])

Upper(s) == IF s = "client" THEN "CLIENT"
            ELSE IF s = "agent" THEN "AGENT" ELSE s

Min(a, b) == IF a < b THEN a ELSE b

\* One rendered line: "[SPEAKER] (sentiment: s, emotion: e): text".
ContextLine(msg, meta) ==
  [speaker |-> Upper(meta.speaker), sentiment |-> meta.sentiment,
   emotion |-> meta.emotion, text |-> msg.content]

\* The loop of get_context over zip(messages_to_use, metadata_to_use): the
\* rendered text is the sequence of its lines (joined by "\n" in the code).
RenderLines(msgs, metas) ==
  [i \in 1..Min(Len(msgs), Len(metas)) |-> ContextLine(msgs[i], metas[i])]

\* The result of get_context from the two slices it took: the sentinel
\* "Aucune conversation en cours." (empty) or the rendered lines.
RenderContext(msgs, metas) ==
  IF Len(msgs) = 0
    THEN [empty |-> TRUE, lines |-> <<>>]
    ELSE [empty |-> FALSE, lines |-> RenderLines(msgs, metas)]

get_context(msgs, metas, k) ==
  RenderContext(WindowOf(msgs, k), WindowOf(metas, k))

\* A distribution that notes each label once, however often it occurs.
LabelPresence(seq, field) ==
  [l \in {seq[i][field] : i \in 1..Len(seq)} |-> 1]

LabelCounts(seq, field) ==
  LET labels == {seq[i][field] : i \in 1..Len(seq)}
  IN  [l \in labels |-> Cardinality({i \in 1..Len(seq) : seq[i][field] = l})]

\* client_count and agent_count of the loop: a record whose speaker is not
\* "client" counts as the agent's.
ClientCount(metas) ==
  Cardinality({i \in 1..Len(metas) : metas[i].speaker = "client"})
AgentCount(metas) ==
  Cardinality({i \in 1..Len(metas) : metas[i].speaker # "client"})

\* The keys of a dict filled by the loop, in the order a dict keeps and
\* shows them: that of the first record carrying each label.
KeyOrder(seq, field) ==
  LET firsts == {i \in 1..Len(seq) :
                   \A j \in 1..(i - 1) : seq[j][field] # seq[i][field]}
      Nth(k) == CHOOSE i \in firsts : Cardinality({j \in firsts : j < i}) = k - 1
  IN  [k \in 1..Cardinality(firsts) |-> seq[Nth(k)][field]]

get_conversation_summary(metas) ==
  [total_messages |-> Len(metas),
   client_messages |-> ClientCount(metas),
   agent_messages |-> AgentCount(metas),
   sentiments |-> LabelCounts(metas, "sentiment"),
   sentiment_keys |-> KeyOrder(metas, "sentiment"),
   emotions |-> LabelCounts(metas, "emotion"),
   emotion_keys |-> KeyOrder(metas, "emotion")]

\* format_stats: the sentinel text when there is no message, else the five
\* lines, which carry exactly the five values of the summary, the two dicts
\* written with their keys in the dicts' order.
format_stats(stats) ==
  IF stats.total_messages = 0
    THEN [empty |-> TRUE, stats |-> get_conversation_summary(<<>>)]
    ELSE [empty |-> FALSE, stats |-> stats]

\* The properties last_speaker, last_emotion, last_sentiment: None on an
\* empty metadata_store, else the tag of its last record.
last_speaker_of_first(metas) ==
  IF metas = <<>> THEN NoneArg ELSE Some(metas[1].speaker)

last_speaker(metas) ==
  IF metas = <<>> THEN NoneArg ELSE Some(metas[Len(metas)].speaker)

last_emotion(metas) ==
  IF metas = <<>> THEN NoneArg ELSE Some(metas[Len(metas)].emotion)

last_sentiment(metas) ==
  IF metas = <<>> THEN NoneArg ELSE Some(metas[Len(metas)].sentiment)

\* Eviction one message late.
NeedsEvictionLate(msgs, cap) == Len(msgs) > cap + 1

\* `if len(self.messages) > self.max_messages` of add_message.
NeedsEviction(msgs, cap) == Len(msgs) > cap

\* An add_message that evicts the oldest message and keeps its metadata.
add_message_keeps_metadata(msgs, metas, cap, message) ==
  LET appended == Append(msgs, message)
  IN  IF NeedsEviction(appended, cap)
        THEN [msgs |-> Tail(appended), metas |-> metas]
        ELSE [msgs |-> appended, metas |-> metas]

\* add_message, on the two lists of a memory of capacity cap.
add_message(msgs, metas, cap, message) ==
  LET appended == Append(msgs, message)
  IN  IF NeedsEviction(appended, cap)
        THEN [msgs |-> Tail(appended),
              metas |-> IF metas # <<>> THEN Tail(metas) ELSE metas]
        ELSE [msgs |-> appended, metas |-> metas]

\* add_input_message as one call: add_message, then the metadata append.
add_input_message(msgs, metas, cap, m) ==
  LET added == add_message(msgs, metas, cap, MakeMessage(m))
  IN  [msgs |-> added.msgs, metas |-> Append(added.metas, MakeMetadata(m))]

\* ------------------------------------------------------------ Suggestion
Suggestion(q, s, d) ==
  [questions |-> q, signals_detected |-> s, recommended_direction |-> d]

\* A fallback of invoke_orchestrator that carries the handler's sentinel.
GenerationFallbackSystemError ==
  Suggestion(<<"Could you elaborate on that?">>, <<"system_error">>,
             "Continue the conversation naturally while the system recovers.")

\* The fallback of invoke_orchestrator.
GenerationFallback ==
  Suggestion(<<"Could you elaborate on that?">>, <<"processing_error">>,
             "Continue the conversation naturally while the system recovers.")

\* The fallback of StreamHandler.process_message.
HandlerFallback ==
  Suggestion(<<"Could you tell me more about that?">>, <<"system_error">>,
             "Continue the conversation while the system recovers.")

\* What the generation capability can answer.  A field of a JSON answer is
\* absent, a list of strings, a string or null; val holds its strings.
Field(tag, val) == [tag |-> tag, val |-> val]
NoField == Field("absent", <<>>)

LLMResponse(kind, q, s, d) ==
  [kind |-> kind, questions |-> q, signals_detected |-> s,
   recommended_direction |-> d]

LLMResponses ==
  { LLMResponse("error", NoField, NoField, NoField),   \* transport, timeout
    LLMResponse("json", Field("list", <<"q1", "q2">>), Field("list", <<"s1">>),
                Field("str", <<"d1">>)),
    LLMResponse("json", NoField, NoField, NoField),    \* defaults apply
    LLMResponse("json", Field("str", <<"q1">>), Field("list", <<"s1">>),
                Field("str", <<"d1">>)),               \* questions is no list
    LLMResponse("json", Field("list", <<"q1", "q2">>), Field("list", <<"s1">>),
                Field("null", <<>>)) }                 \* a field is null

NoResponse == LLMResponse("none", NoField, NoField, NoField)

\* An OutputSuggestion whose fields also accept null.
SuggestionValidatesNullable(r) ==
  /\ r.kind = "json"
  /\ r.questions.tag \in {"absent", "list", "null"}
  /\ r.signals_detected.tag \in {"absent", "list", "null"}
  /\ r.recommended_direction.tag \in {"absent", "str", "null"}

\* PydanticOutputParser(pydantic_object=OutputSuggestion): the fields
\* questions and signals_detected are List[str] with default_factory=list,
\* recommended_direction is str with default "".
SuggestionValidates(r) ==
  /\ r.kind = "json"
  /\ r.questions.tag \in {"absent", "list"}
  /\ r.signals_detected.tag \in {"absent", "list"}
  /\ r.recommended_direction.tag \in {"absent", "str"}

ParseSuggestion(r) ==
  Suggestion(r.questions.val, r.signals_detected.val,
             IF r.recommended_direction.tag = "str"
               THEN r.recommended_direction.val[1] ELSE "")

\* The chain raises when the call fails or its output does not validate.
ChainRaises(r) == ~SuggestionValidates(r)

\* invoke_orchestrator that hands on the first question only.
invoke_orchestrator_first_question(r) ==
  IF ChainRaises(r) THEN GenerationFallback
  ELSE LET s == ParseSuggestion(r)
       IN  Suggestion(IF s.questions = <<>> THEN <<>> ELSE <<s.questions[1]>>,
                      s.signals_detected, s.recommended_direction)

\* invoke_orchestrator without its own fallback: the Exception reaches the
\* except clause of process_message.
invoke_orchestrator_propagates(r) ==
  IF ChainRaises(r) THEN HandlerFallback ELSE ParseSuggestion(r)

\* invoke_orchestrator: the chain's result, or the fallback on Exception.
invoke_orchestrator(r) ==
  IF ChainRaises(r) THEN GenerationFallback ELSE ParseSuggestion(r)

\* How a process_message call ended for its caller.
Returned(s) == [kind |-> "returned", value |-> s]
Raised == [kind |-> "raised", value |-> Suggestion(<<>>, <<>>, "")]
Cancelled == [kind |-> "cancelled", value |-> Suggestion(<<>>, <<>>, "")]
NoResult == [kind |-> "none", value |-> Suggestion(<<>>, <<>>, "")]

\* process_message without its except clause.
process_message_reraises(res) == res

\* The except Exception clause of process_message: an Exception raised in
\* the try block becomes the handler's fallback.
process_message_except(res) ==
  IF res.kind = "raised" THEN Returned(HandlerFallback) ELSE res

\* What the endpoint answers.
NoReply == [shape |-> "none", error |-> "", suggestion |-> Suggestion(<<>>, <<>>, "")]
ErrorReply(e) == [shape |-> "error", error |-> e, suggestion |-> Suggestion(<<>>, <<>>, "")]
SuggestionReply(s) == [shape |-> "suggestion", error |-> "", suggestion |-> s]
Http500 == [shape |-> "http500", error |-> "Error processing message", suggestion |-> Suggestion(<<>>, <<>>, "")]

\* An endpoint that answers a fallback Suggestion with an error object.
endpoint_respond_error_on_fallback(k, res) ==
  IF res.kind = "returned" /\ res.value \notin {GenerationFallback, HandlerFallback}
    THEN SuggestionReply(res.value)
  ELSE IF k = "ws" THEN ErrorReply("processing_error")
  ELSE Http500

\* For the endpoint kind k: websocket.send_json(suggestion.dict()), or the
\* except Exception clause of the loop body; for REST, from_output_suggestion
\* or HTTPException(500).
endpoint_respond(k, res) ==
  IF res.kind = "returned" THEN SuggestionReply(res.value)
  ELSE IF k = "ws" THEN ErrorReply("processing_error")
  ELSE Http500

\* ----------------------------------------------------------------- state
VARIABLES
  max_messages,     \* settings.max_memory_messages, given to both memories
  kind,             \* client -> "ws": a WebSocket connection, "rest": requests
  messages,         \* handler -> ConversationMemory.messages
  metadata_store,   \* handler -> ConversationMemory.metadata_store
  pc,               \* client -> where its endpoint coroutine stands
  frame,            \* client -> the payload it is working on
  messages_to_use,  \* client -> the slice get_context took of messages
  context,          \* client -> conversation_context of prepare_inputs
  stats_text,       \* client -> conversation_stats of prepare_inputs
  llm_out,          \* client -> what the generation capability answered
  result,           \* client -> how process_message ended
  reply,            \* client -> what the endpoint sends back
  gone,             \* client -> the peer has disconnected
  nrecv,            \* frames and requests received so far
  \* history, read by the properties only
  hist,             \* handler -> fragments appended since the last clear
  arrivals,         \* handler -> fragments in process_message entry order
  snap,             \* client -> the store right after the call's own append
  appends,          \* client -> metadata appends made by its last call
  invoked,          \* client -> invoke_orchestrator calls of its last call
  faulted,          \* client -> an Exception was raised outside generation
  inflight,         \* client -> what happened to the store while it waited
  \* the memory driven through its methods, one call at a time
  call,             \* the method called last, with its argument
  ret               \* what that call returned

vars == <<max_messages, kind, messages, metadata_store, pc, frame,
          messages_to_use, context, stats_text, llm_out, result, reply, gone,
          nrecv, hist, arrivals, snap, appends, invoked, faulted, inflight,
          call, ret>>

confvars == <<max_messages, kind>>
memvars == <<messages, metadata_store>>
prepvars == <<messages_to_use, context, stats_text>>
histvars == <<hist, arrivals, snap, appends, invoked, faulted, inflight>>
apivars == <<call, ret>>

\* One StreamHandler behind both routers.
SharedHandler(c) == "ws"

\* One StreamHandler per connection.
HandlerPerConnection(c) == IF c = "c1" THEN "ws" ELSE "rest"

\* websocket.py and rest.py each build their own StreamHandler.
HandlerOf(c) == kind[c]

AppendPcs == {"append", "pop_msg", "pop_meta", "append_meta"}
WaitingPcs == {"dispatched", "slice_meta", "summary", "generating"}

\* An append step that yields to other coroutines.
LoopNeverHeld == TRUE

\* A generation call that blocks the event loop's thread until it returns.
LoopHeldByGeneration ==
  \A c \in Clients : pc[c] \notin AppendPcs \cup {"generating"}

\* The event loop runs one coroutine at a time, and add_input_message has no
\* await: while a call is inside it no other coroutine runs.
LoopFree == \A c \in Clients : pc[c] \notin AppendPcs

NoContext == [empty |-> TRUE, lines |-> <<>>]
NoStats == [empty |-> TRUE, stats |-> get_conversation_summary(<<>>)]
NoSnap == [msgs |-> <<>>, metas |-> <<>>]

\* A method call on a memory and what it returned.
Call(op, k, before) == [op |-> op, k |-> k, before |-> before]
NoCall == Call("none", NoneArg, 0)
NoLast == [speaker |-> NoneArg, emotion |-> NoneArg, sentiment |-> NoneArg]
NoReturn ==
  [context |-> NoContext, summary |-> get_conversation_summary(<<>>),
   last |-> NoLast, conversation_messages |-> 0, stats |-> NoStats]

\* The peers: two WebSocket connections, or a connection and a REST client.
Deployments ==
  { [c \in Clients |-> "ws"],
    [c \in Clients |-> IF c = "c1" THEN "ws" ELSE "rest"] }

Init ==
  /\ max_messages \in 1..MaxCap
  /\ kind \in Deployments
  /\ messages = [h \in Handlers |-> <<>>]
  /\ metadata_store = [h \in Handlers |-> <<>>]
  /\ pc = [c \in Clients |-> "idle"]
  /\ frame = [c \in Clients |-> FragA]
  /\ messages_to_use = [c \in Clients |-> <<>>]
  /\ context = [c \in Clients |-> NoContext]
  /\ stats_text = [c \in Clients |-> NoStats]
  /\ llm_out = [c \in Clients |-> NoResponse]
  /\ result = [c \in Clients |-> NoResult]
  /\ reply = [c \in Clients |-> NoReply]
  /\ gone = [c \in Clients |-> FALSE]
  /\ nrecv = 0
  /\ hist = [h \in Handlers |-> <<>>]
  /\ arrivals = [h \in Handlers |-> <<>>]
  /\ snap = [c \in Clients |-> NoSnap]
  /\ appends = [c \in Clients |-> 0]
  /\ invoked = [c \in Clients |-> 0]
  /\ faulted = [c \in Clients |-> FALSE]
  /\ inflight = [c \in Clients |-> {}]
  /\ call = NoCall
  /\ ret = NoReturn

\* Others of the same handler that wait on generation when the store changes.
Disturb(c, h, what) ==
  [d \in Clients |->
     IF d # c /\ HandlerOf(d) = h /\ pc[d] \in WaitingPcs
       THEN inflight[d] \cup {what} ELSE inflight[d]]

\* The locals of client c are dropped when its call or connection ends.
Forget(c) ==
  /\ frame' = [frame EXCEPT ![c] = FragA]
  /\ messages_to_use' = [messages_to_use EXCEPT ![c] = <<>>]
  /\ context' = [context EXCEPT ![c] = NoContext]
  /\ stats_text' = [stats_text EXCEPT ![c] = NoStats]
  /\ llm_out' = [llm_out EXCEPT ![c] = NoResponse]
  /\ result' = [result EXCEPT ![c] = NoResult]
  /\ reply' = [reply EXCEPT ![c] = NoReply]
  /\ snap' = [snap EXCEPT ![c] = NoSnap]
  /\ faulted' = [faulted EXCEPT ![c] = FALSE]
  /\ inflight' = [inflight EXCEPT ![c] = {}]

\* ------------------------------------------------ StreamHandler.process_message
\* Entry of process_message(input_msg).  An Exception raised in the try block
\* before the memory is touched (fault) goes to the except clause; otherwise
\* the call is in add_input_message.
process_message_enter(c, p, fault) ==
  /\ frame' = [frame EXCEPT ![c] = p]
  /\ nrecv' = nrecv + 1
  /\ faulted' = [faulted EXCEPT ![c] = fault]
  /\ appends' = [appends EXCEPT ![c] = 0]
  /\ invoked' = [invoked EXCEPT ![c] = 0]
  /\ IF fault
       THEN LET res == process_message_except(Raised)
            IN  /\ result' = [result EXCEPT ![c] = res]
                /\ reply' = [reply EXCEPT ![c] = endpoint_respond(kind[c], res)]
                /\ pc' = [pc EXCEPT ![c] = "sending"]
                /\ UNCHANGED arrivals
       ELSE /\ pc' = [pc EXCEPT ![c] = "append"]
            /\ arrivals' = [arrivals EXCEPT
                 ![HandlerOf(c)] = Append(@, InputMessage(p))]
            /\ UNCHANGED <<result, reply>>
  /\ UNCHANGED <<confvars, apivars, memvars, prepvars, llm_out, gone, hist, snap,
                 inflight>>

\* A loop that reads the next frame while the reply to the last one is
\* still to be sent.
ws_receive_pipelined(c, p, fault) ==
  /\ kind[c] = "ws"
  /\ pc[c] \in {"idle", "sending"}
  /\ ~gone[c]
  /\ LoopFree
  /\ nrecv < MaxMsgs
  /\ ws_decode(p) = "ok"
  /\ process_message_enter(c, p, fault)

\* The WebSocket loop: receive_text returned a frame; json.loads, InputMessage,
\* then process_message, or one of the three except clauses.
ws_receive(c, p, fault) ==
  /\ kind[c] = "ws"
  /\ pc[c] = "idle"
  /\ ~gone[c]
  /\ LoopFree
  /\ nrecv < MaxMsgs
  /\ IF ws_decode(p) = "ok"
       THEN process_message_enter(c, p, fault)
       ELSE /\ ~fault
            /\ frame' = [frame EXCEPT ![c] = p]
            /\ nrecv' = nrecv + 1
            /\ reply' = [reply EXCEPT ![c] =
                 ErrorReply(IF ws_decode(p) = "type_error"
                              THEN "processing_error" ELSE ws_decode(p))]
            /\ pc' = [pc EXCEPT ![c] = "sending"]
            /\ UNCHANGED <<confvars, apivars, memvars, prepvars, llm_out, result, gone,
                           histvars>>

\* POST /api/process: FastAPI hands the endpoint a validated InputMessage.
rest_process(c, p, fault) ==
  /\ kind[c] = "rest"
  /\ pc[c] = "idle"
  /\ LoopFree
  /\ nrecv < MaxMsgs
  /\ p \in ValidPayloads
  /\ process_message_enter(c, p, fault)

\* ------------------------------------------------------ ConversationMemory
\* process_message that invokes the orchestrator before it appends.
add_message_append_after_invoke(c) ==
  /\ pc[c] = "append"
  /\ pc' = [pc EXCEPT ![c] = "dispatched"]
  /\ UNCHANGED <<confvars, apivars, memvars, frame, prepvars, llm_out, result, reply,
                 gone, nrecv, histvars>>

\* self.messages.append(message)
add_message_append(c) ==
  LET h == HandlerOf(c)
      m == InputMessage(frame[c])
      msgs == Append(messages[h], MakeMessage(m))
  IN  /\ pc[c] = "append"
      /\ messages' = [messages EXCEPT ![h] = msgs]
      /\ hist' = [hist EXCEPT ![h] = Append(@, m)]
      /\ inflight' = Disturb(c, h, "append")
      /\ pc' = [pc EXCEPT ![c] =
           IF NeedsEviction(msgs, max_messages) THEN "pop_msg" ELSE "append_meta"]
      /\ UNCHANGED <<confvars, apivars, metadata_store, frame, prepvars, llm_out,
                     result, reply, gone, nrecv, arrivals, snap, appends,
                     invoked, faulted>>

\* removed = self.messages.pop(0)
add_message_pop(c) ==
  LET h == HandlerOf(c)
  IN  /\ pc[c] = "pop_msg"
      /\ messages' = [messages EXCEPT ![h] = Tail(@)]
      /\ pc' = [pc EXCEPT ![c] =
           IF metadata_store[h] # <<>> THEN "pop_meta" ELSE "append_meta"]
      /\ UNCHANGED <<confvars, apivars, metadata_store, frame, prepvars, llm_out,
                     result, reply, gone, nrecv, histvars>>

\* self.metadata_store.pop(0)
add_message_pop_meta(c) ==
  LET h == HandlerOf(c)
  IN  /\ pc[c] = "pop_meta"
      /\ metadata_store' = [metadata_store EXCEPT ![h] = Tail(@)]
      /\ pc' = [pc EXCEPT ![c] = "append_meta"]
      /\ UNCHANGED <<confvars, apivars, messages, frame, prepvars, llm_out, result,
                     reply, gone, nrecv, histvars>>

\* self.metadata_store.append({...}) ends add_input_message; process_message
\* then awaits invoke_orchestrator, whose chain.ainvoke hands prepare_inputs
\* to an executor thread and suspends.
add_input_message_meta(c) ==
  LET h == HandlerOf(c)
      metas == Append(metadata_store[h], MakeMetadata(InputMessage(frame[c])))
  IN  /\ pc[c] = "append_meta"
      /\ metadata_store' = [metadata_store EXCEPT ![h] = metas]
      /\ appends' = [appends EXCEPT ![c] = @ + 1]
      /\ invoked' = [invoked EXCEPT ![c] = @ + 1]
      /\ snap' = [snap EXCEPT ![c] = [msgs |-> messages[h], metas |-> metas]]
      /\ pc' = [pc EXCEPT ![c] = "dispatched"]
      /\ UNCHANGED <<confvars, apivars, messages, frame, prepvars, llm_out, result,
                     reply, gone, nrecv, hist, arrivals, faulted, inflight>>

\* ConversationMemory.clear, reached by clear_conversation of the handler
\* (POST /ws/clear for "ws", POST /api/conversation/clear for "rest").
clear(h) ==
  /\ LoopFree
  /\ messages' = [messages EXCEPT ![h] = <<>>]
  /\ metadata_store' = [metadata_store EXCEPT ![h] = <<>>]
  /\ hist' = [hist EXCEPT ![h] = <<>>]
  /\ arrivals' = [arrivals EXCEPT ![h] = <<>>]
  /\ inflight' = Disturb("", h, "clear")
  /\ UNCHANGED <<confvars, apivars, pc, frame, prepvars, llm_out, result, reply, gone,
                 nrecv, snap, appends, invoked, faulted>>

\* ----------------------------------------- prepare_inputs (executor thread)
\* messages_to_use = self.messages[-20:]
get_context_messages(c) ==
  /\ pc[c] = "dispatched"
  /\ messages_to_use' = [messages_to_use EXCEPT
       ![c] = WindowOf(messages[HandlerOf(c)], Some(ContextWindow))]
  /\ pc' = [pc EXCEPT ![c] = "slice_meta"]
  /\ UNCHANGED <<confvars, apivars, memvars, frame, context, stats_text, llm_out,
                 result, reply, gone, nrecv, histvars>>

\* metadata_to_use = self.metadata_store[-20:], then the rendering loop.
get_context_metadata(c) ==
  /\ pc[c] = "slice_meta"
  /\ context' = [context EXCEPT ![c] =
       RenderContext(messages_to_use[c],
                     WindowOf(metadata_store[HandlerOf(c)], Some(ContextWindow)))]
  /\ messages_to_use' = [messages_to_use EXCEPT ![c] = <<>>]
  /\ pc' = [pc EXCEPT ![c] = "summary"]
  /\ UNCHANGED <<confvars, apivars, memvars, frame, stats_text, llm_out, result, reply,
                 gone, nrecv, histvars>>

\* conversation_stats = format_stats(memory.get_conversation_summary()); the
\* chain then formats the prompt and awaits the generation capability.
prepare_inputs_stats(c) ==
  /\ pc[c] = "summary"
  /\ stats_text' = [stats_text EXCEPT ![c] =
       format_stats(get_conversation_summary(metadata_store[HandlerOf(c)]))]
  /\ pc' = [pc EXCEPT ![c] = "generating"]
  /\ UNCHANGED <<confvars, apivars, memvars, frame, messages_to_use, context, llm_out,
                 result, reply, gone, nrecv, histvars>>

\* An invoke_orchestrator that calls the chain again when it raised.
generation_returns_retry(c, r) ==
  /\ pc[c] = "generating"
  /\ LoopFree
  /\ IF ChainRaises(r)
       THEN /\ pc' = [pc EXCEPT ![c] = "dispatched"]
            /\ invoked' = [invoked EXCEPT ![c] = @ + 1]
            /\ UNCHANGED <<llm_out, result, reply, context, stats_text, snap,
                           inflight>>
       ELSE /\ LET res == process_message_except(Returned(invoke_orchestrator(r)))
               IN  /\ llm_out' = [llm_out EXCEPT ![c] = r]
                   /\ result' = [result EXCEPT ![c] = res]
                   /\ reply' = [reply EXCEPT ![c] = endpoint_respond(kind[c], res)]
            /\ pc' = [pc EXCEPT ![c] = "sending"]
            /\ context' = [context EXCEPT ![c] = NoContext]
            /\ stats_text' = [stats_text EXCEPT ![c] = NoStats]
            /\ snap' = [snap EXCEPT ![c] = NoSnap]
            /\ inflight' = [inflight EXCEPT ![c] = {}]
            /\ UNCHANGED invoked
  /\ UNCHANGED <<confvars, apivars, memvars, frame, messages_to_use, gone,
                 nrecv, hist, arrivals, appends, faulted>>

\* An invoke_orchestrator that waits under a timeout: the wait may end with
\* no answer from the capability, and the expiry is handled as a failure.
generation_returns_or_timeout(c, r) ==
  /\ pc[c] = "generating"
  /\ LoopFree
  /\ LET res == process_message_except(Returned(GenerationFallback))
     IN  /\ result' = [result EXCEPT ![c] = res]
         /\ reply' = [reply EXCEPT ![c] = endpoint_respond(kind[c], res)]
  /\ pc' = [pc EXCEPT ![c] = "sending"]
  /\ context' = [context EXCEPT ![c] = NoContext]
  /\ stats_text' = [stats_text EXCEPT ![c] = NoStats]
  /\ snap' = [snap EXCEPT ![c] = NoSnap]
  /\ inflight' = [inflight EXCEPT ![c] = {}]
  /\ UNCHANGED <<confvars, apivars, memvars, frame, messages_to_use, gone, nrecv, hist,
                 arrivals, appends, invoked, faulted, llm_out>>

\* ------------------------------------------------------- generation returns
\* The generation capability answers r (or fails): invoke_orchestrator returns
\* to process_message, which returns to the endpoint, which starts sending.
generation_returns(c, r) ==
  /\ pc[c] = "generating"
  /\ LoopFree
  /\ LET res == process_message_except(Returned(invoke_orchestrator(r)))
     IN  /\ llm_out' = [llm_out EXCEPT ![c] = r]
         /\ result' = [result EXCEPT ![c] = res]
         /\ reply' = [reply EXCEPT ![c] = endpoint_respond(kind[c], res)]
  /\ pc' = [pc EXCEPT ![c] = "sending"]
  /\ context' = [context EXCEPT ![c] = NoContext]
  /\ stats_text' = [stats_text EXCEPT ![c] = NoStats]
  /\ snap' = [snap EXCEPT ![c] = NoSnap]
  /\ inflight' = [inflight EXCEPT ![c] = {}]
  /\ UNCHANGED <<confvars, apivars, memvars, frame, messages_to_use, gone, nrecv, hist,
                 arrivals, appends, invoked, faulted>>

\* A loop that ends the connection once it has sent an error object.
send_reply_closing_on_error(c) ==
  /\ pc[c] = "sending"
  /\ LoopFree
  /\ pc' = [pc EXCEPT ![c] =
       IF gone[c] \/ reply[c].shape = "error" THEN "closed" ELSE "idle"]
  /\ Forget(c)
  /\ UNCHANGED <<confvars, apivars, memvars, gone, nrecv, hist,
                 arrivals, appends, invoked>>

\* websocket.send_json completes and the loop awaits the next frame; on a
\* closed connection it raises, the except clause's own send_json raises
\* too, and the endpoint ends.  A REST response is returned.
send_reply(c) ==
  /\ pc[c] = "sending"
  /\ LoopFree
  /\ pc' = [pc EXCEPT ![c] = IF gone[c] THEN "closed" ELSE "idle"]
  /\ Forget(c)
  /\ UNCHANGED <<confvars, apivars, memvars, gone, nrecv, hist,
                 arrivals, appends, invoked>>

\* The WebSocket peer goes away while process_message waits on generation;
\* nothing reads the connection before the reply is sent.
disconnect(c) ==
  /\ kind[c] = "ws"
  /\ ~gone[c]
  /\ pc[c] = "generating"
  /\ gone' = [gone EXCEPT ![c] = TRUE]
  /\ UNCHANGED <<confvars, apivars, memvars, pc, frame, prepvars, llm_out, result,
                 reply, nrecv, histvars>>

\* The peer goes away between messages: receive_text raises
\* WebSocketDisconnect and the endpoint ends.
ws_closed(c) ==
  /\ kind[c] = "ws"
  /\ pc[c] = "idle"
  /\ LoopFree
  /\ pc' = [pc EXCEPT ![c] = "closed"]
  /\ gone' = [gone EXCEPT ![c] = TRUE]
  /\ UNCHANGED <<confvars, apivars, memvars, frame, prepvars, llm_out, result, reply,
                 nrecv, histvars>>

\* A cancellation that takes the last fragment back out of the store.
cancel_rollback(c) ==
  LET h == HandlerOf(c)
      DropLast(q) == SubSeq(q, 1, Len(q) - 1)
  IN  /\ pc[c] \in WaitingPcs
      /\ LoopFree
      /\ pc' = [pc EXCEPT ![c] = "cancelled"]
      /\ messages' = [messages EXCEPT ![h] = DropLast(@)]
      /\ metadata_store' = [metadata_store EXCEPT ![h] = DropLast(@)]
      /\ UNCHANGED <<confvars, apivars, frame, prepvars, llm_out, result, reply, gone,
                     nrecv, histvars>>

\* The task is cancelled while process_message waits on invoke_orchestrator:
\* CancelledError is no Exception, no except clause on the way catches it.
cancel(c) ==
  /\ pc[c] \in WaitingPcs
  /\ LoopFree
  /\ pc' = [pc EXCEPT ![c] = "cancelled"]
  /\ Forget(c)
  /\ UNCHANGED <<confvars, apivars, memvars, gone, nrecv, hist,
                 arrivals, appends, invoked>>

Next ==
  \/ \E c \in Clients, p \in Payloads, fault \in BOOLEAN : ws_receive(c, p, fault)
  \/ \E c \in Clients, p \in Payloads, fault \in BOOLEAN : rest_process(c, p, fault)
  \/ \E c \in Clients : add_message_append(c)
  \/ \E c \in Clients : add_message_pop(c)
  \/ \E c \in Clients : add_message_pop_meta(c)
  \/ \E c \in Clients : add_input_message_meta(c)
  \/ \E h \in Handlers : clear(h)
  \/ \E c \in Clients : get_context_messages(c)
  \/ \E c \in Clients : get_context_metadata(c)
  \/ \E c \in Clients : prepare_inputs_stats(c)
  \/ \E c \in Clients, r \in LLMResponses : generation_returns(c, r)
  \/ \E c \in Clients : send_reply(c)
  \/ \E c \in Clients : disconnect(c)
  \/ \E c \in Clients : ws_closed(c)
  \/ \E c \in Clients : cancel(c)

Spec == Init /\ [][Next]_vars

\* The steps of the process_message call of client c that wait for nothing
\* outside the process: the list operations of add_input_message on the
\* event loop, and prepare_inputs on the executor thread.
Progress(c) ==
  \/ add_message_append(c)
  \/ add_message_pop(c)
  \/ add_message_pop_meta(c)
  \/ add_input_message_meta(c)
  \/ get_context_messages(c)
  \/ get_context_metadata(c)
  \/ prepare_inputs_stats(c)

\* The service with a scheduler that runs what is ready (event loop and
\* executor), and a generation capability whose every call completes or
\* fails.
FairSpec ==
  /\ Spec
  /\ \A c \in Clients : WF_vars(Progress(c))
  /\ \A c \in Clients : WF_vars(\E r \in LLMResponses : generation_returns(c, r))

\* ================================== the ConversationMemory driven on its own
\* One ConversationMemory, its methods called one after the other by a single
\* caller: each action is one whole method call.
TheMemory == "ws"

\* The values given to get_context(max_messages=...): None, and ints around 0
\* and around the sizes a store takes.
Windows == {NoneArg} \cup {Some(k) : k \in (0 - MaxAdds)..MaxAdds}

callvars == <<kind, pc, frame, prepvars, llm_out, result, reply, gone,
              arrivals, snap, appends, invoked, faulted, inflight>>

StoreSize == Len(messages[TheMemory]) + Len(metadata_store[TheMemory])

\* ConversationMemory(max_messages=cap): both lists empty, cap taken as given.
Constructed(caps) ==
  /\ max_messages \in caps
  /\ kind = [c \in Clients |-> "ws"]
  /\ messages = [h \in Handlers |-> <<>>]
  /\ metadata_store = [h \in Handlers |-> <<>>]
  /\ pc = [c \in Clients |-> "idle"]
  /\ frame = [c \in Clients |-> FragA]
  /\ messages_to_use = [c \in Clients |-> <<>>]
  /\ context = [c \in Clients |-> NoContext]
  /\ stats_text = [c \in Clients |-> NoStats]
  /\ llm_out = [c \in Clients |-> NoResponse]
  /\ result = [c \in Clients |-> NoResult]
  /\ reply = [c \in Clients |-> NoReply]
  /\ gone = [c \in Clients |-> FALSE]
  /\ nrecv = 0
  /\ hist = [h \in Handlers |-> <<>>]
  /\ arrivals = [h \in Handlers |-> <<>>]
  /\ snap = [c \in Clients |-> NoSnap]
  /\ appends = [c \in Clients |-> 0]
  /\ invoked = [c \in Clients |-> 0]
  /\ faulted = [c \in Clients |-> FALSE]
  /\ inflight = [c \in Clients |-> {}]
  /\ call = NoCall
  /\ ret = NoReturn

\* memory.add_input_message(m)
call_add_input_message(m) ==
  LET h == TheMemory
      after == add_input_message(messages[h], metadata_store[h], max_messages, m)
  IN  /\ nrecv < MaxAdds
      /\ nrecv' = nrecv + 1
      /\ messages' = [messages EXCEPT ![h] = after.msgs]
      /\ metadata_store' = [metadata_store EXCEPT ![h] = after.metas]
      /\ hist' = [hist EXCEPT ![h] = Append(@, m)]
      /\ call' = Call("add_input_message", NoneArg, StoreSize)
      /\ ret' = NoReturn
      /\ UNCHANGED <<max_messages, callvars>>

\* A clear that removes the oldest record of each list only.
call_clear_oldest ==
  LET h == TheMemory
      Rest(q) == IF q = <<>> THEN q ELSE Tail(q)
  IN  /\ messages' = [messages EXCEPT ![h] = Rest(@)]
      /\ metadata_store' = [metadata_store EXCEPT ![h] = Rest(@)]
      /\ hist' = [hist EXCEPT ![h] = <<>>]
      /\ call' = Call("clear", NoneArg, StoreSize)
      /\ ret' = NoReturn
      /\ UNCHANGED <<max_messages, nrecv, callvars>>

\* A clear that forgets the messages and keeps the metadata records.
call_clear_messages_only ==
  LET h == TheMemory
  IN  /\ messages' = [messages EXCEPT ![h] = <<>>]
      /\ hist' = [hist EXCEPT ![h] = <<>>]
      /\ call' = Call("clear", NoneArg, StoreSize)
      /\ ret' = NoReturn
      /\ UNCHANGED <<max_messages, metadata_store, nrecv, callvars>>

\* memory.clear()
call_clear ==
  LET h == TheMemory
  IN  /\ messages' = [messages EXCEPT ![h] = <<>>]
      /\ metadata_store' = [metadata_store EXCEPT ![h] = <<>>]
      /\ hist' = [hist EXCEPT ![h] = <<>>]
      /\ call' = Call("clear", NoneArg, StoreSize)
      /\ ret' = NoReturn
      /\ UNCHANGED <<max_messages, nrecv, callvars>>

\* A get_context that takes the messages it renders out of the two lists.
call_get_context_consuming(k) ==
  LET h == TheMemory
      Kept(q) == SubSeq(q, 1, Len(q) - Len(WindowOf(q, k)))
  IN  /\ call' = Call("get_context", k, StoreSize)
      /\ ret' = [NoReturn EXCEPT
           !.context = get_context(messages[h], metadata_store[h], k)]
      /\ messages' = [messages EXCEPT ![h] = Kept(@)]
      /\ metadata_store' = [metadata_store EXCEPT ![h] = Kept(@)]
      /\ UNCHANGED <<max_messages, nrecv, hist, callvars>>

\* memory.get_context(max_messages=k)
call_get_context(k) ==
  LET h == TheMemory
  IN  /\ call' = Call("get_context", k, StoreSize)
      /\ ret' = [NoReturn EXCEPT
           !.context = get_context(messages[h], metadata_store[h], k)]
      /\ UNCHANGED <<max_messages, memvars, nrecv, hist, callvars>>

\* memory.get_conversation_summary()
call_get_conversation_summary ==
  LET h == TheMemory
  IN  /\ call' = Call("get_conversation_summary", NoneArg, StoreSize)
      /\ ret' = [NoReturn EXCEPT
           !.summary = get_conversation_summary(metadata_store[h])]
      /\ UNCHANGED <<max_messages, memvars, nrecv, hist, callvars>>

\* GET /ws/status: len(memory.messages) and the three last_* properties
\* through get_last_speaker, get_last_emotion, get_last_sentiment.
websocket_status ==
  LET h == TheMemory
  IN  /\ call' = Call("websocket_status", NoneArg, StoreSize)
      /\ ret' = [NoReturn EXCEPT
           !.conversation_messages = Len(messages[h]),
           !.last = [speaker |-> last_speaker(metadata_store[h]),
                     emotion |-> last_emotion(metadata_store[h]),
                     sentiment |-> last_sentiment(metadata_store[h])]]
      /\ UNCHANGED <<max_messages, memvars, nrecv, hist, callvars>>

\* prepare_inputs with a format_stats that writes the keys of the two dicts
\* in an order that may change from one call to the next.
call_prepare_inputs_any_order ==
  LET h == TheMemory
      text == format_stats(get_conversation_summary(metadata_store[h]))
      Reverse(q) == [i \in 1..Len(q) |-> q[Len(q) + 1 - i]]
  IN  /\ call' = Call("prepare_inputs", Some(ContextWindow), StoreSize)
      /\ \E flip \in BOOLEAN :
           ret' = [NoReturn EXCEPT
             !.context = get_context(messages[h], metadata_store[h],
                                     Some(ContextWindow)),
             !.stats = IF flip
                         THEN [text EXCEPT
                                 !.stats.sentiment_keys = Reverse(@),
                                 !.stats.emotion_keys = Reverse(@)]
                         ELSE text]
      /\ UNCHANGED <<max_messages, memvars, nrecv, hist, callvars>>

\* prepare_inputs with the statistics taken over the context window only.
call_prepare_inputs_windowed_stats ==
  LET h == TheMemory
  IN  /\ call' = Call("prepare_inputs", Some(ContextWindow), StoreSize)
      /\ ret' = [NoReturn EXCEPT
           !.context = get_context(messages[h], metadata_store[h],
                                   Some(ContextWindow)),
           !.stats = format_stats(get_conversation_summary(
                       WindowOf(metadata_store[h], Some(ContextWindow))))]
      /\ UNCHANGED <<max_messages, memvars, nrecv, hist, callvars>>

\* prepare_inputs of the chain, run with no other call in between:
\* memory.get_context(max_messages=20), then
\* format_stats(memory.get_conversation_summary()).
call_prepare_inputs ==
  LET h == TheMemory
  IN  /\ call' = Call("prepare_inputs", Some(ContextWindow), StoreSize)
      /\ ret' = [NoReturn EXCEPT
           !.context = get_context(messages[h], metadata_store[h],
                                   Some(ContextWindow)),
           !.stats = format_stats(get_conversation_summary(metadata_store[h]))]
      /\ UNCHANGED <<max_messages, memvars, nrecv, hist, callvars>>

MemNext ==
  \/ \E m \in ValidPayloads : call_add_input_message(InputMessage(m))
  \/ call_clear
  \/ \E k \in Windows : call_get_context(k)
  \/ call_get_conversation_summary
  \/ websocket_status
  \/ call_prepare_inputs

\* A memory built with a capacity of at least 1.
MemInit == Constructed(1..MaxCap)
MemSpec == MemInit /\ [][MemNext]_vars

\* A memory built with any capacity the constructor accepts.
AnyCapInit == Constructed((0 - 1)..MaxCap)
AnyCapSpec == AnyCapInit /\ [][MemNext]_vars

\* ------------------------------------------- a store longer than the window
\* The fragments a conversation brought before: all from the client, all
\* from the agent, or in turn.
Patterns == {"client", "agent", "turns"}
Earlier(n, pat) ==
  [i \in 1..n |->
     InputMessage(IF pat = "client" \/ (pat = "turns" /\ i % 2 = 1)
                    THEN FragA ELSE FragB)]

\* The two lists after add_input_message was called with each of frags in
\* turn on a memory of capacity cap that held store: the first half of
\* the calls is carried out before the second half starts.
RECURSIVE AddAll(_, _, _)
AddAll(store, cap, frags) ==
  LET n == Len(frags)
      half == n \div 2
      first == AddAll(store, cap, SubSeq(frags, 1, half))
  IN  IF n = 0 THEN store
      ELSE IF n = 1
        THEN add_input_message(store.msgs, store.metas, cap, frags[1])
      ELSE IF Len(first.msgs) >= 0
        THEN AddAll(first, cap, SubSeq(frags, half + 1, n))
      ELSE store

\* A memory of a capacity beyond the context window, as settings give it
\* (default 50), after a conversation of about ContextWindow fragments.
LongInit ==
  \E n \in (ContextWindow - 1)..(ContextWindow + MaxExtra), pat \in Patterns :
    LET store == AddAll(NoSnap, ContextWindow + MaxExtra, Earlier(n, pat))
    IN  /\ max_messages = ContextWindow + MaxExtra
        /\ kind = [c \in Clients |-> "ws"]
        /\ messages = [h \in Handlers |-> IF h = TheMemory THEN store.msgs ELSE <<>>]
        /\ metadata_store =
             [h \in Handlers |-> IF h = TheMemory THEN store.metas ELSE <<>>]
        /\ pc = [c \in Clients |-> "idle"]
        /\ frame = [c \in Clients |-> FragA]
        /\ messages_to_use = [c \in Clients |-> <<>>]
        /\ context = [c \in Clients |-> NoContext]
        /\ stats_text = [c \in Clients |-> NoStats]
        /\ llm_out = [c \in Clients |-> NoResponse]
        /\ result = [c \in Clients |-> NoResult]
        /\ reply = [c \in Clients |-> NoReply]
        /\ gone = [c \in Clients |-> FALSE]
        /\ nrecv = 0
        /\ hist = [h \in Handlers |-> IF h = TheMemory THEN Earlier(n, pat) ELSE <<>>]
        /\ arrivals = [h \in Handlers |-> <<>>]
        /\ snap = [c \in Clients |-> NoSnap]
        /\ appends = [c \in Clients |-> 0]
        /\ invoked = [c \in Clients |-> 0]
        /\ faulted = [c \in Clients |-> FALSE]
        /\ inflight = [c \in Clients |-> {}]
        /\ call = NoCall
        /\ ret = NoReturn

LongSpec == LongInit /\ [][MemNext]_vars

\* ============================================================ properties
LastN(seq, n) == SubSeq(seq, Len(seq) - Min(n, Len(seq)) + 1, Len(seq))

\* The fragment a stored message, or a stored metadata record, was made from.
MsgFragment(msg) ==
  [text |-> msg.content, speaker |-> msg.speaker, sentiment |-> msg.sentiment,
   emotion |-> msg.emotion]
MetaFragment(meta) ==
  [text |-> meta.text, speaker |-> meta.speaker, sentiment |-> meta.sentiment,
   emotion |-> meta.emotion]

StoredMessages(h) == [i \in 1..Len(messages[h]) |-> MsgFragment(messages[h][i])]
StoredMetadata(h) ==
  [i \in 1..Len(metadata_store[h]) |-> MetaFragment(metadata_store[h][i])]

\* Fragment m is in the store of handler h, as a message and as a record.
InStore(h, m) ==
  /\ \E i \in 1..Len(messages[h]) : MsgFragment(messages[h][i]) = m
  /\ \E i \in 1..Len(metadata_store[h]) : MetaFragment(metadata_store[h][i]) = m

\* The generation call of client c has answered, and failed.
GenerationFailed(c) ==
  /\ pc[c] = "sending"
  /\ llm_out[c] # NoResponse
  /\ ChainRaises(llm_out[c])

\* What prepare_inputs would hand over from the store as the call left it.
SnapContext(c) == get_context(snap[c].msgs, snap[c].metas, Some(ContextWindow))
SnapStats(c) == format_stats(get_conversation_summary(snap[c].metas))

C2_Theorem ==
  \A c \in Clients :
    pc[c] \in WaitingPcs =>
      /\ appends[c] = 1
      /\ snap[c].msgs # <<>>
      /\ MsgFragment(snap[c].msgs[Len(snap[c].msgs)]) = InputMessage(frame[c])
      /\ MetaFragment(snap[c].metas[Len(snap[c].metas)]) = InputMessage(frame[c])

\* C2 witness: a generation call is waiting for the capability's answer.
C2_Witness ==
  \E c \in Clients : pc[c] = "generating" /\ appends[c] = 1

\* C3 as claimed: when the generation call has failed, process_message has
\* returned exactly the generation fallback and the fragment of the call is
\* in the store.
C3_Claim ==
  \A c \in Clients :
    GenerationFailed(c) =>
      /\ result[c] = Returned(GenerationFallback)
      /\ InStore(HandlerOf(c), InputMessage(frame[c]))

\* C3 amended: when the generation call has failed, process_message has
\* returned exactly the generation fallback, and the step that handles the
\* failure leaves both lists of every store as they were.
C3_Theorem ==
  /\ [](\A c \in Clients :
          GenerationFailed(c) => result[c] = Returned(GenerationFallback))
  /\ [][\A c \in Clients :
          (pc[c] = "generating" /\ pc'[c] = "sending") =>
            (messages' = messages /\ metadata_store' = metadata_store)]_vars

\* C3 witness: a failed generation, the fallback returned, the fragment kept.
C3_Witness ==
  \E c \in Clients :
    /\ GenerationFailed(c)
    /\ result[c] = Returned(GenerationFallback)
    /\ InStore(HandlerOf(c), InputMessage(frame[c]))

C5_Claim ==
  \A h \in Handlers :
    Cardinality({c \in Clients : HandlerOf(c) = h /\ pc[c] \in WaitingPcs}) <= 1

\* C6: at most one call is inside the append step at a time, the appends
\* happen in the order the calls entered process_message, and between
\* appends each store holds the last fragments in that order, equal
\* fragments as often as they arrived.
C6_Theorem ==
  /\ Cardinality({c \in Clients : pc[c] \in AppendPcs}) <= 1
  /\ \A h \in Handlers :
       /\ Len(hist[h]) <= Len(arrivals[h])
       /\ hist[h] = SubSeq(arrivals[h], 1, Len(hist[h]))
       /\ LoopFree =>
            /\ StoredMessages(h) = LastN(arrivals[h], max_messages)
            /\ StoredMetadata(h) = LastN(arrivals[h], max_messages)

\* C6 witness: two calls brought the same fragment, the store holds it twice.
C6_Witness ==
  /\ LoopFree
  /\ \E h \in Handlers :
       /\ Len(messages[h]) = 2
       /\ messages[h][1] = messages[h][2]
       /\ \A c \in Clients : HandlerOf(c) = h /\ appends[c] = 1

\* C7 as claimed: without any clear in between, the context and statistics a
\* call hands to generation are those of the store right after its own append.
C7_Claim ==
  \A c \in Clients :
    (pc[c] = "generating" /\ "clear" \notin inflight[c]) =>
      (context[c] = SnapContext(c) /\ stats_text[c] = SnapStats(c))

\* C8 as claimed: a clear while the call waited, and no append by others,
\* leaves the context and statistics the call hands to generation those of
\* the store right after its own append.
C8_Claim ==
  \A c \in Clients :
    (pc[c] = "generating" /\ inflight[c] = {"clear"}) =>
      (context[c] = SnapContext(c) /\ stats_text[c] = SnapStats(c))

\* One step in which the call of c is abandoned or its abandonment noticed.
Abandons(c) ==
  \/ ~gone[c] /\ gone'[c]
  \/ gone[c] /\ pc'[c] # pc[c]
  \/ pc[c] # "cancelled" /\ pc'[c] = "cancelled"

\* C9: a call appends its fragment once; the disconnect of its peer, the
\* failing send that follows and a cancellation leave every store as it is,
\* and a connection that has ended appends nothing more.
C9_Theorem ==
  /\ [](\A c \in Clients :
          /\ appends[c] <= 1
          /\ (pc[c] = "generating" /\ gone[c]) => appends[c] = 1)
  /\ [][\A c \in Clients :
          /\ Abandons(c) =>
               /\ messages' = messages
               /\ metadata_store' = metadata_store
               /\ appends'[c] = appends[c]
          /\ pc[c] \in {"closed", "cancelled"} =>
               (pc'[c] = pc[c] /\ appends'[c] = appends[c])]_vars

\* C9 witness: the peer left while generation ran; the call has returned, the
\* send will fail, and the fragment is in the store, appended once.
C9_Witness ==
  \E c \in Clients :
    /\ pc[c] = "sending" /\ gone[c] /\ appends[c] = 1
    /\ InStore(HandlerOf(c), InputMessage(frame[c]))

\* A stored fragment that InputMessage accepts.
WellFormed(f) == f.text # "" /\ f.text # Absent /\ f.speaker \in {"client", "agent"}

\* C10: a frame that does not decode to an InputMessage is answered with an
\* error and changes no store, only a decoded frame reaches the append, and
\* every stored message and record has a text and a speaker client or agent.
C10_Theorem ==
  /\ [](/\ \A c \in Clients :
             pc[c] \in AppendPcs \cup WaitingPcs => ws_decode(frame[c]) = "ok"
        /\ \A h \in Handlers :
             /\ \A i \in 1..Len(messages[h]) : WellFormed(StoredMessages(h)[i])
             /\ \A i \in 1..Len(metadata_store[h]) : WellFormed(StoredMetadata(h)[i]))
  /\ [][\A c \in Clients :
          (pc[c] = "idle" /\ pc'[c] # "idle" /\ ws_decode(frame'[c]) # "ok") =>
            /\ pc'[c] = "sending"
            /\ reply'[c].shape = "error"
            /\ messages' = messages
            /\ metadata_store' = metadata_store]_vars

\* C10 witness: an invalid frame got its error while the store held a fragment.
C10_Witness ==
  \E c \in Clients :
    /\ pc[c] = "sending"
    /\ ws_decode(frame[c]) = "validation_error"
    /\ reply[c] = ErrorReply("validation_error")
    /\ messages[HandlerOf(c)] # <<>>

\* C11: on the WebSocket endpoint an error object is the reply only to a
\* payload that does not decode to an InputMessage, and a schema-valid
\* message is answered with a Suggestion, with one of the two fallbacks when
\* generation failed or an Exception was raised in the handler.
C11_Theorem ==
  \A c \in Clients :
    (kind[c] = "ws" /\ pc[c] = "sending") =>
      /\ reply[c].shape \in {"error", "suggestion"}
      /\ reply[c].shape = "error" => frame[c] \in InvalidPayloads
      /\ frame[c] \in ValidPayloads => reply[c].shape = "suggestion"
      /\ GenerationFailed(c) => reply[c] = SuggestionReply(GenerationFallback)
      /\ faulted[c] => reply[c] = SuggestionReply(HandlerFallback)

\* C11 witness: a valid frame whose generation failed is about to be answered
\* with the fallback Suggestion on a WebSocket connection.
C11_Witness ==
  \E c \in Clients :
    /\ kind[c] = "ws" /\ pc[c] = "sending"
    /\ frame[c] \in ValidPayloads
    /\ GenerationFailed(c)
    /\ reply[c].shape = "suggestion"
    /\ reply[c].suggestion.signals_detected = <<"processing_error">>

\* C12 as claimed: get_context(max_messages=k) with k <= 0 returns the
\* empty-conversation sentinel and renders no fragment, whatever is stored.
C12_Claim ==
  (call.op = "get_context" /\ call.k # NoneArg /\ call.k[1] <= 0) =>
    (ret.context.empty /\ ret.context.lines = <<>>)

\* The line and the text a list of fragments is to be rendered as.
ExpectedLine(f) ==
  [speaker |-> IF f.speaker = "client" THEN "CLIENT" ELSE "AGENT",
   sentiment |-> f.sentiment, emotion |-> f.emotion, text |-> f.text]
ExpectedContext(frags) ==
  IF frags = <<>>
    THEN [empty |-> TRUE, lines |-> <<>>]
    ELSE [empty |-> FALSE,
          lines |-> [i \in 1..Len(frags) |-> ExpectedLine(frags[i])]]

\* C13: get_context(k) with k >= 1 returns the lines of the last min(k, size)
\* stored fragments, one per fragment in stored order, each with the
\* uppercased speaker, the sentiment, the emotion and the text of that
\* fragment; get_context(None) returns the lines of every stored fragment;
\* on an empty store the result is the sentinel.
C13_Theorem ==
  call.op = "get_context" =>
    LET stored == StoredMessages(TheMemory)
    IN  /\ call.k = NoneArg => ret.context = ExpectedContext(stored)
        /\ (call.k # NoneArg /\ call.k[1] >= 1) =>
             /\ ret.context = ExpectedContext(LastN(stored, call.k[1]))
             /\ Len(ret.context.lines) = Min(call.k[1], Len(stored))
        /\ stored = <<>> => ret.context = [empty |-> TRUE, lines |-> <<>>]

\* C13 witness: get_context(1) on two different stored fragments returned
\* one line, that of the fragment stored last.
C13_Witness ==
  /\ call.op = "get_context" /\ call.k = Some(1)
  /\ Len(messages[TheMemory]) = 2
  /\ messages[TheMemory][1] # messages[TheMemory][2]
  /\ Len(ret.context.lines) = 1
  /\ ret.context.lines[1].text = messages[TheMemory][2].content

\* The sum of the counts of a distribution (label -> count).
RECURSIVE SumCounts(_, _)
SumCounts(dist, labels) ==
  IF labels = {} THEN 0
  ELSE LET l == CHOOSE x \in labels : TRUE
       IN  dist[l] + SumCounts(dist, labels \ {l})
TotalCount(dist) == SumCounts(dist, DOMAIN dist)

\* C14: between calls, get_conversation_summary returns total_messages equal
\* to the number of stored fragments, client_messages + agent_messages equal
\* to it, and sentiment counts and emotion counts that each sum to it; on an
\* empty store every count is 0 and both distributions are empty.
C14_Theorem ==
  call.op = "get_conversation_summary" =>
    LET s == ret.summary
        n == Len(messages[TheMemory])
    IN  /\ s.total_messages = n
        /\ s.total_messages = Len(metadata_store[TheMemory])
        /\ s.client_messages + s.agent_messages = s.total_messages
        /\ TotalCount(s.sentiments) = s.total_messages
        /\ TotalCount(s.emotions) = s.total_messages
        /\ n = 0 =>
             /\ s.client_messages = 0 /\ s.agent_messages = 0
             /\ DOMAIN s.sentiments = {} /\ DOMAIN s.emotions = {}

\* C14 witness: the summary of a store of two fragments with the same tags:
\* one sentiment, counted twice.
C14_Witness ==
  /\ call.op = "get_conversation_summary"
  /\ ret.summary.total_messages = 2
  /\ ret.summary.client_messages = 2
  /\ DOMAIN ret.summary.sentiments = {"positive"}
  /\ ret.summary.sentiments["positive"] = 2

\* C15: after any sequence of add_input_message and clear calls, last_speaker,
\* last_sentiment and last_emotion are the tags of the fragment appended
\* last, and each is None exactly when the store is empty.
C15_Theorem ==
  call.op = "websocket_status" =>
    LET h == TheMemory
        appended == hist[h]
        empty == messages[h] = <<>> /\ metadata_store[h] = <<>>
    IN  /\ appended # <<>> =>
             /\ ret.last.speaker = Some(appended[Len(appended)].speaker)
             /\ ret.last.sentiment = Some(appended[Len(appended)].sentiment)
             /\ ret.last.emotion = Some(appended[Len(appended)].emotion)
        /\ appended = <<>> => empty
        /\ (ret.last.speaker = NoneArg) <=> empty
        /\ (ret.last.sentiment = NoneArg) <=> empty
        /\ (ret.last.emotion = NoneArg) <=> empty

\* C15 witness: two different fragments were appended, and the three values
\* read are the tags of the second.
C15_Witness ==
  /\ call.op = "websocket_status"
  /\ Len(hist[TheMemory]) = 2
  /\ hist[TheMemory][1] = InputMessage(FragA)
  /\ hist[TheMemory][2] = InputMessage(FragB)
  /\ ret.last = [speaker |-> Some("agent"), emotion |-> Some("fear"),
                 sentiment |-> Some("negative")]

\* What the read methods return on a store that holds nothing.
EmptySummary ==
  [total_messages |-> 0, client_messages |-> 0, agent_messages |-> 0,
   sentiments |-> <<>>, sentiment_keys |-> <<>>,
   emotions |-> <<>>, emotion_keys |-> <<>>]
EmptyContext == [empty |-> TRUE, lines |-> <<>>]
ReadsEmpty(msgs, metas) ==
  /\ get_conversation_summary(metas) = EmptySummary
  /\ \A k \in Windows : get_context(msgs, metas, k) = EmptyContext
  /\ last_speaker(metas) = NoneArg
  /\ last_sentiment(metas) = NoneArg
  /\ last_emotion(metas) = NoneArg

\* C16: right after clear, from whatever the store held, the store is empty:
\* the summary is the all-zero summary, the context is the sentinel and
\* last_speaker, last_sentiment and last_emotion are None, also as returned
\* by the read that follows the clear.
C16_Theorem ==
  /\ [](call.op = "clear" =>
          /\ messages[TheMemory] = <<>> /\ metadata_store[TheMemory] = <<>>
          /\ ReadsEmpty(messages[TheMemory], metadata_store[TheMemory]))
  /\ [][call.op = "clear" =>
          /\ call'.op = "get_conversation_summary" => ret'.summary = EmptySummary
          /\ call'.op = "get_context" => ret'.context = EmptyContext
          /\ call'.op = "websocket_status" =>
               /\ ret'.last.speaker = NoneArg
               /\ ret'.last.sentiment = NoneArg
               /\ ret'.last.emotion = NoneArg
               /\ ret'.conversation_messages = 0]_vars

\* C16 witness: clear was called on a store that held two fragments.
C16_Witness ==
  /\ call.op = "clear" /\ call.before = 4
  /\ messages[TheMemory] = <<>> /\ metadata_store[TheMemory] = <<>>

\* C17: a clear that follows a clear, and a clear on an empty store, leave
\* both lists as they were, empty.
C17_Theorem ==
  [][(call'.op = "clear" /\ (call.op = "clear" \/ StoreSize = 0)) =>
       /\ messages' = messages
       /\ metadata_store' = metadata_store
       /\ messages'[TheMemory] = <<>> /\ metadata_store'[TheMemory] = <<>>]_vars

\* C17 witness: after fragments were appended and cleared, clear was called
\* again on the store that was already empty.
C17_Witness ==
  /\ call.op = "clear" /\ call.before = 0 /\ nrecv > 0
  /\ messages[TheMemory] = <<>> /\ metadata_store[TheMemory] = <<>>

\* C18 as claimed: a memory that exists, and on which an append has
\* completed, was built with a capacity of at least 1, and the append left no
\* more messages and no more metadata records than that capacity.
C18_Claim ==
  call.op = "add_input_message" =>
    /\ max_messages >= 1
    /\ Len(messages[TheMemory]) <= max_messages
    /\ Len(metadata_store[TheMemory]) <= max_messages

\* C19: a process_message call invokes the orchestrator chain at most once:
\* not at all before its append is done or when an Exception ended it before,
\* once when the append is done; when the generation call ends, failed or
\* not, the call goes on to its reply without invoking the chain again.
C19_Theorem ==
  /\ [](\A c \in Clients :
          /\ invoked[c] <= 1
          /\ pc[c] \in AppendPcs => invoked[c] = 0
          /\ (pc[c] = "sending" /\ faulted[c]) => invoked[c] = 0
          /\ pc[c] \in WaitingPcs => (invoked[c] = 1 /\ appends[c] = 1)
          /\ (pc[c] = "sending" /\ llm_out[c] # NoResponse) =>
               (invoked[c] = 1 /\ appends[c] = 1))
  /\ [][\A c \in Clients :
          (pc[c] = "generating" /\ pc'[c] # "generating") =>
            /\ pc'[c] \in {"sending", "cancelled"}
            /\ invoked'[c] = invoked[c]]_vars

\* C19 witness: a generation call has failed, the fallback is the result,
\* and the chain was invoked once.
C19_Witness ==
  \E c \in Clients :
    /\ GenerationFailed(c)
    /\ invoked[c] = 1
    /\ result[c].value.signals_detected = <<"processing_error">>

\* The generation call of client c has answered with a valid Suggestion.
GenerationSucceeded(c) ==
  /\ pc[c] = "sending"
  /\ llm_out[c] # NoResponse
  /\ SuggestionValidates(llm_out[c])

\* C20: when the generation call succeeded, process_message has returned the
\* Suggestion the chain's parser produced from the answer: the same three
\* fields with the same values, and nothing else.
C20_Theorem ==
  \A c \in Clients :
    GenerationSucceeded(c) =>
      LET produced == ParseSuggestion(llm_out[c])
      IN  /\ result[c].kind = "returned"
          /\ DOMAIN result[c].value = DOMAIN produced
          /\ result[c].value.questions = produced.questions
          /\ result[c].value.signals_detected = produced.signals_detected
          /\ result[c].value.recommended_direction = produced.recommended_direction
          /\ reply[c] = SuggestionReply(produced)

\* C20 witness: the capability answered two questions, a signal and a
\* direction, and they are the result of process_message.
C20_Witness ==
  \E c \in Clients :
    /\ GenerationSucceeded(c)
    /\ llm_out[c].questions = Field("list", <<"q1", "q2">>)
    /\ result[c] = Returned(Suggestion(<<"q1", "q2">>, <<"s1">>, "d1"))

\* The Suggestion s is built from the answer r field by field: a list given
\* as a list, a string given as a string, an absent field as the empty list
\* or the empty string, and no field of r null or of another type.
BuiltFrom(s, r) ==
  /\ r.kind = "json"
  /\ r.questions.tag \in {"list", "absent"}
  /\ s.questions = (IF r.questions.tag = "list" THEN r.questions.val ELSE <<>>)
  /\ r.signals_detected.tag \in {"list", "absent"}
  /\ s.signals_detected =
       (IF r.signals_detected.tag = "list" THEN r.signals_detected.val ELSE <<>>)
  /\ r.recommended_direction.tag \in {"str", "absent"}
  /\ s.recommended_direction =
       (IF r.recommended_direction.tag = "str"
          THEN r.recommended_direction.val[1] ELSE "")

\* C21: a Suggestion returned by process_message has exactly the three
\* fields, and it is one of the two fallbacks, whose fields are a list, a
\* list and a string, or it is built from an answer none of whose fields is
\* null: questions and signals_detected lists, empty when the answer left
\* them out, recommended_direction a string, empty when left out.
C21_Theorem ==
  \A c \in Clients :
    result[c].kind = "returned" =>
      LET s == result[c].value
      IN  /\ DOMAIN s = {"questions", "signals_detected", "recommended_direction"}
          /\ Len(s.questions) >= 0 /\ Len(s.signals_detected) >= 0
          /\ \/ s = Suggestion(<<"Could you elaborate on that?">>,
                               <<"processing_error">>,
                               "Continue the conversation naturally while the system recovers.")
             \/ s = Suggestion(<<"Could you tell me more about that?">>,
                               <<"system_error">>,
                               "Continue the conversation while the system recovers.")
             \/ BuiltFrom(s, llm_out[c])

\* C21 witness: the answer left all three fields out, and the Suggestion
\* returned has two empty lists and the empty string.
C21_Witness ==
  \E c \in Clients :
    /\ pc[c] = "sending"
    /\ llm_out[c] = LLMResponse("json", NoField, NoField, NoField)
    /\ result[c] = Returned(Suggestion(<<>>, <<>>, ""))

\* C22: prepare_inputs renders the context from the last 20 stored fragments
\* at most and takes the statistics over every stored fragment: with more
\* than 20 stored, the context has exactly 20 lines, those of the last 20,
\* and total_messages is the size of the whole store.
C22_Theorem ==
  call.op = "prepare_inputs" =>
    LET stored == StoredMessages(TheMemory)
        n == Len(stored)
    IN  /\ Len(ret.context.lines) = Min(n, 20)
        /\ ret.context = ExpectedContext(LastN(stored, 20))
        /\ ret.stats.empty <=> n = 0
        /\ ret.stats.stats.total_messages = n
        /\ ret.stats.stats.client_messages + ret.stats.stats.agent_messages = n
        /\ n > 20 =>
             /\ Len(ret.context.lines) = 20
             /\ ret.context.lines[1] = ExpectedLine(stored[n - 19])
             /\ ret.stats.stats.total_messages > Len(ret.context.lines)

\* C22 witness: 22 fragments stored, 20 lines in the context, 22 in the total.
C22_Witness ==
  /\ call.op = "prepare_inputs"
  /\ Len(messages[TheMemory]) = 22
  /\ Len(ret.context.lines) = 20
  /\ ret.stats.stats.total_messages = 22

\* What the introspection methods of handler h return: the rendered context,
\* the summary and the three last values.
Observables(h) ==
  [context |-> get_context(messages[h], metadata_store[h], NoneArg),
   summary |-> get_conversation_summary(metadata_store[h]),
   speaker |-> last_speaker(metadata_store[h]),
   emotion |-> last_emotion(metadata_store[h]),
   sentiment |-> last_sentiment(metadata_store[h])]

\* C23: two distinct StreamHandler instances share no conversation state: a
\* step of process_message on the handler of client c, and clear_conversation
\* on handler h, leave the context, the summary and the last speaker,
\* emotion and sentiment of every other handler as they were.
C23_Theorem ==
  [][/\ \A c \in Clients : \A g \in Handlers :
          (pc'[c] # pc[c] /\ g # kind[c]) => Observables(g)' = Observables(g)
     /\ \A h \in Handlers : \A g \in Handlers :
          (clear(h) /\ g # h) => Observables(g)' = Observables(g)]_vars

\* Both handlers hold a conversation, and the two conversations differ.
C23_Witness ==
  /\ kind["c1"] # kind["c2"]
  /\ Observables("ws").summary.total_messages > 0
  /\ Observables("rest").summary.total_messages > 0
  /\ Observables("ws") # Observables("rest")

\* C24: while the process_message call of client c is suspended waiting for
\* the generation capability, whatever another client or a clear request is
\* about to do can be done: a fragment can be received, clear can run on
\* either handler, and a call that is appending, preparing its inputs,
\* receiving its own answer or sending its reply can take its next step.  The
\* only thing waited for is the end of an add_input_message in progress.
C24_Theorem ==
  \A c \in Clients : \A d \in Clients \ {c} :
    pc[c] = "generating" =>
      /\ pc[d] = "append" => ENABLED add_message_append(d)
      /\ pc[d] = "pop_msg" => ENABLED add_message_pop(d)
      /\ pc[d] = "pop_meta" => ENABLED add_message_pop_meta(d)
      /\ pc[d] = "append_meta" => ENABLED add_input_message_meta(d)
      /\ pc[d] = "dispatched" => ENABLED get_context_messages(d)
      /\ pc[d] = "slice_meta" => ENABLED get_context_metadata(d)
      /\ pc[d] = "summary" => ENABLED prepare_inputs_stats(d)
      /\ (\A e \in Clients : pc[e] \notin AppendPcs) =>
           /\ \A h \in Handlers : ENABLED clear(h)
           /\ (pc[d] = "idle" /\ ~gone[d] /\ nrecv < MaxMsgs) =>
                ENABLED (\/ ws_receive(d, FragA, FALSE)
                         \/ rest_process(d, FragA, FALSE))
           /\ pc[d] = "generating" =>
                \A r \in LLMResponses : ENABLED generation_returns(d, r)
           /\ pc[d] = "sending" => ENABLED send_reply(d)

\* Client c1 still waits for its answer; meanwhile c2 had a fragment
\* appended to the same memory, was answered and is idle again.
C24_Witness ==
  /\ pc["c1"] = "generating"
  /\ "append" \in inflight["c1"]
  /\ pc["c2"] = "idle"
  /\ appends["c2"] = 1
  /\ kind["c2"] = kind["c1"]

\* The calls that only read the memory.
ReadOps ==
  {"get_context", "get_conversation_summary", "websocket_status",
   "prepare_inputs"}

\* C25: the introspection operations leave the store unchanged: after
\* get_context, get_conversation_summary, the status request with the three
\* last values, or the chain's input preparation, the message list and the
\* metadata list are what they were before the call.
C25_Theorem ==
  [][call'.op \in ReadOps =>
       /\ messages' = messages
       /\ metadata_store' = metadata_store]_vars

\* A context of at least one line was rendered from a store that still
\* holds the messages.
C25_Witness ==
  /\ call.op = "get_context"
  /\ Len(ret.context.lines) > 0
  /\ Len(messages[TheMemory]) >= Len(ret.context.lines)
  /\ Len(metadata_store[TheMemory]) >= Len(ret.context.lines)

Answers(rep, f) ==
  IF ws_decode(f) = "ok"
    THEN rep.shape = "suggestion"
    ELSE rep = ErrorReply(IF ws_decode(f) = "type_error"
                            THEN "processing_error" ELSE ws_decode(f))

\* C27: on one WebSocket connection a frame is read only when the loop is at
\* receive_text with no reply outstanding; a reply is made ready once per
\* frame, and it answers that frame; the loop comes back to receive_text only
\* by sending that reply on the open connection.  Frames and replies of a
\* connection therefore alternate, each reply after its own frame.
C27_Theorem ==
  [][\A c \in Clients : kind[c] = "ws" =>
       /\ (nrecv' = nrecv + 1 /\ pc'[c] # pc[c])
            => (pc[c] = "idle" /\ reply[c] = NoReply /\ ~gone[c])
       /\ (reply'[c] # reply[c] /\ reply'[c] # NoReply)
            => (reply[c] = NoReply /\ pc'[c] = "sending"
                /\ Answers(reply'[c], frame'[c]))
       /\ (pc'[c] = "idle" /\ pc[c] # "idle")
            => (pc[c] = "sending" /\ ~gone[c] /\ Answers(reply[c], frame[c])
                /\ reply'[c] = NoReply)]_vars

\* The second frame of a connection is being processed: the first was
\* answered before it was read.
C27_Witness ==
  /\ kind["c1"] = "ws"
  /\ nrecv = 2
  /\ pc["c1"] = "sending"
  /\ pc["c2"] = "idle"
  /\ Len(hist["ws"]) = 2
  /\ appends["c2"] = 0
  /\ ~gone["c1"]

\* C28: the REST endpoints and the WebSocket endpoints operate on the same
\* handler: whenever no append is in progress, the memory the REST endpoints
\* read and clear holds what the memory of the WebSocket endpoints holds, so
\* a fragment processed through one is visible through the other and a
\* clear through one empties the other.
C28_Claim ==
  (\A c \in Clients : pc[c] \notin AppendPcs) =>
    /\ messages["rest"] = messages["ws"]
    /\ metadata_store["rest"] = metadata_store["ws"]

\* C29: each line of the context rendered by the input-preparation step
\* pairs the text of a fragment with the speaker, sentiment and emotion of
\* that same fragment, also when other calls on the handler append or evict
\* meanwhile.
C29_Claim ==
  \A c \in Clients :
    \A i \in 1..Len(context[c].lines) :
      \E p \in ValidPayloads :
        context[c].lines[i] = ExpectedLine(InputMessage(p))

\* C30: with a capacity of at least 1, after any sequence of
\* add_input_message and clear calls the message list and the metadata list
\* have the same length, the i-th metadata record carries the text and the
\* tags of the i-th message, and the message count the status request shows
\* is total_messages of the summary.
C30_Theorem ==
  LET h == TheMemory
      msgs == messages[h]
      metas == metadata_store[h]
  IN  /\ Len(msgs) = Len(metas)
      /\ \A i \in 1..Len(msgs) :
           /\ metas[i].text = msgs[i].content
           /\ MetaFragment(metas[i]) = MsgFragment(msgs[i])
      /\ call.op = "websocket_status" =>
           ret.conversation_messages =
             get_conversation_summary(metas).total_messages

\* The status request counted a full store from which a fragment had been
\* evicted.
C30_Witness ==
  /\ call.op = "websocket_status"
  /\ Len(hist[TheMemory]) > Len(messages[TheMemory])
  /\ ret.conversation_messages = max_messages
  /\ Len(metadata_store[TheMemory]) = max_messages

\* C31: all WebSocket connections operate on one store.  The context and
\* the statistics prepared for a WebSocket message, when nothing touched the
\* store since the message was appended, are those of the fragments that
\* all connections together appended since the last POST /ws/clear, as far
\* as the capacity keeps them; and that clear leaves nothing of any
\* connection's fragments.
C31_Theorem ==
  /\ \A c \in Clients :
       (kind[c] = "ws" /\ pc[c] = "generating" /\ inflight[c] = {}) =>
         LET kept == LastN(hist["ws"], max_messages)
         IN  /\ context[c] = ExpectedContext(kept)
             /\ ~stats_text[c].empty
             /\ stats_text[c].stats = get_conversation_summary(
                  [i \in 1..Len(kept) |-> MakeMetadata(kept[i])])
  /\ (hist["ws"] = <<>> /\ \A c \in Clients : pc[c] \notin AppendPcs) =>
       (messages["ws"] = <<>> /\ metadata_store["ws"] = <<>>)

\* The second connection's message is handed a context of two lines, the
\* first being the fragment the first connection had processed before.
C31_Witness ==
  /\ kind["c1"] = "ws" /\ kind["c2"] = "ws"
  /\ pc["c1"] = "idle" /\ appends["c1"] = 1
  /\ pc["c2"] = "generating" /\ inflight["c2"] = {}
  /\ Len(context["c2"].lines) = 2
  /\ context["c2"].lines[1] = ExpectedLine(InputMessage(FragA))
  /\ context["c2"].lines[2] = ExpectedLine(InputMessage(FragB))
  /\ stats_text["c2"].stats.total_messages = 2

\* The process_message call of client c is under way.
InCall(c) == pc[c] \in AppendPcs \cup WaitingPcs

\* process_message has returned a Suggestion to the endpoint of client c.
ReturnedSuggestion(c) == pc[c] = "sending" /\ result[c].kind = "returned"

\* C32 as claimed: every process_message invocation eventually returns a
\* Suggestion, provided each generation call completes or fails.
C32_Claim ==
  \A c \in Clients : InCall(c) ~> ReturnedSuggestion(c)

\* C32 amended: provided each generation call completes or fails, every
\* process_message invocation eventually returns a Suggestion unless its
\* task is cancelled while it waits; and the handler has no timeout: a call
\* that waits for the generation capability leaves that wait only by the
\* capability's answer or failure, or by cancellation.
C32_Theorem ==
  /\ \A c \in Clients :
       InCall(c) ~> (ReturnedSuggestion(c) \/ pc[c] = "cancelled")
  /\ [][\A c \in Clients :
          (pc[c] = "generating" /\ pc'[c] # "generating") =>
            \/ pc'[c] = "cancelled"
            \/ /\ ReturnedSuggestion(c)'
               /\ llm_out'[c] \in LLMResponses]_vars

\* A call went through append and generation and has returned the
\* generation's fallback after the capability failed.
C32_Witness ==
  \E c \in Clients :
    /\ ReturnedSuggestion(c)
    /\ appends[c] = 1
    /\ ChainRaises(llm_out[c])
    /\ result[c] = Returned(GenerationFallback)

\* The locals of the loop of connection c are those of a connection that has
\* read nothing yet, and the connection is open.
AtReceive(c) ==
  /\ pc[c] = "idle" /\ ~gone[c]
  /\ frame[c] = FragA /\ reply[c] = NoReply /\ result[c] = NoResult
  /\ llm_out[c] = NoResponse /\ ~faulted[c]
  /\ context[c] = NoContext /\ stats_text[c] = NoStats
  /\ messages_to_use[c] = <<>> /\ snap[c] = NoSnap /\ inflight[c] = {}

C34_Theorem ==
  \A c \in Clients :
    ReturnedSuggestion(c) =>
      /\ result[c].value.signals_detected = <<"system_error">> <=> faulted[c]
      /\ faulted[c] =>
           /\ result[c] = Returned(HandlerFallback)
           /\ invoked[c] = 0 /\ llm_out[c] = NoResponse
      /\ GenerationFailed(c) =>
           /\ ~faulted[c] /\ invoked[c] = 1
           /\ result[c] = Returned(GenerationFallback)
           /\ result[c].value.signals_detected = <<"processing_error">>
      /\ result[c].value.signals_detected = <<"processing_error">> =>
           GenerationFailed(c)

\* Two calls have returned, one the handler's fallback after an Exception
\* of its own, the other the fallback of a failed generation call.
C34_Witness ==
  /\ ReturnedSuggestion("c1") /\ faulted["c1"]
  /\ result["c1"] = Returned(HandlerFallback)
  /\ ReturnedSuggestion("c2") /\ GenerationFailed("c2")
  /\ result["c2"] = Returned(GenerationFallback)

====
